---- MODULE Spec2Model ----
(***************************************************************************)
(* A model of the FinWise backend: the auditor -> strategist -> catalyst   *)
(* pipeline, the fund catalog, the autonomous coach and the /chat/message  *)
(* handler.                                                                *)
(*                                                                         *)
(* Money is a Python float in the source.  Here an amount is an integer    *)
(* number of thousandths of a rupee (Scale per rupee), so that rounding to *)
(* two decimal places (round(x, 2)) is a real conversion: it rounds to a   *)
(* multiple of Cent.  Arithmetic is exact; the inputs are chosen so that   *)
(* no sum is a decimal tie (...5 thousandths), where the binary value of   *)
(* the float, not the decimal one, would decide the rounding.              *)
(* A percentage with two decimals (burn_rate) is an integer number of      *)
(* hundredths of a percent.  A date is a day ordinal in a calendar whose   *)
(* months all have DaysInMonth days.                                       *)
(***************************************************************************)
EXTENDS Integers, Sequences, FiniteSets, TLC

VARIABLES
    pc,            \* position of the call under study (of each thread's call,
                   \* where calls are concurrent)
    now,           \* datetime.now(), as a day ordinal
    transactions,  \* audit_finances: its argument
    report,        \* the FinancialReport audit_finances returns
    risk_profile,  \* the risk_profile argument of the strategist and the catalyst
    plan,          \* the SafetyNetPlan create_safety_plan returns
    proposal,      \* the proposal propose_portfolio returns
    investable_amount,  \* get_funds_by_risk_profile: its argument
    funds,         \* get_funds_by_risk_profile: its return value
    users_file,         \* data/users.json: the list of user records
    transactions_file,  \* data/transactions.json: the list of transaction records
    request,            \* POST /chat/message: the request being served, or the last one
    transaction_data,   \* handle_message: what extract_transaction returned
    collaborator,       \* what the language-model providers answered to the coach
    coaching,           \* what the call of analyze_and_coach did
    response,           \* the HTTP response of the last request
    calls,              \* concurrent store calls: the function each thread calls
    loaded,             \* concurrent store calls: the list each thread loaded
    lock                \* _file_lock: the thread that holds it, 0 when free

auditVars == <<transactions, report>>
planVars == <<plan, proposal>>
fundVars == <<investable_amount, funds>>
storeVars == <<users_file, transactions_file>>
chatVars == <<request, transaction_data, collaborator, coaching, response>>

threadVars == <<calls, loaded, lock>>

vars == <<pc, now, risk_profile, auditVars, planVars, fundVars, storeVars, chatVars,
          threadVars>>

\* None, for a variable that holds a record.
None == [none |-> TRUE]

\* No thread is inside a store function.
ThreadsIdle ==
    /\ calls = <<>>
    /\ loaded = <<>>
    /\ lock = 0

\* The service is not running: empty files, no request.
ServiceIdle ==
    /\ ThreadsIdle
    /\ users_file = <<>>
    /\ transactions_file = <<>>
    /\ request = None
    /\ transaction_data = None
    /\ collaborator = None
    /\ coaching = None
    /\ response = None

-----------------------------------------------------------------------------
(* Numbers *)

Scale == 10 * 100
Cent == Scale \div 100
Rupees(n) == n * Scale

Max(a, b) == IF a >= b THEN a ELSE b
Min(a, b) == IF a <= b THEN a ELSE b

\* round(n / d) to the nearest integer, ties to even; d > 0.
RoundDiv(n, d) ==
    LET q == n \div d
        r == n % d
    IN  IF 2 * r < d THEN q
        ELSE IF 2 * r > d THEN q + 1
        ELSE IF q % 2 = 0 THEN q ELSE q + 1

\* round(x, 2) of an amount: the nearest multiple of one hundredth.
Round2(x) == RoundDiv(x, Cent) * Cent

\* <<q, r>> with r * 10^k = q * d + r', 0 <= r' < d: k decimal digits of r / d,
\* one digit at a time so that no intermediate product leaves 32 bits.
RECURSIVE LongDiv(_, _, _)
LongDiv(r, d, k) ==
    IF k = 0 THEN <<0, r>>
    ELSE LET p == LongDiv(r, d, k - 1)
         IN  <<p[1] * 10 + (p[2] * 10) \div d, (p[2] * 10) % d>>

\* round(n / d * 100, 2) of a ratio of amounts n >= 0, d > 0, in hundredths of a
\* percent, ties to even.
RoundPct2(n, d) ==
    LET p == LongDiv(n % d, d, 4)
        q == (n \div d) * 100 * 100 + p[1]
    IN  IF 2 * p[2] < d THEN q
        ELSE IF 2 * p[2] > d THEN q + 1
        ELSE IF q % 2 = 0 THEN q ELSE q + 1

RECURSIVE SumSeq(_)
SumSeq(s) == IF s = <<>> THEN 0 ELSE Head(s) + SumSeq(Tail(s))

\* [t.amount for t in s]
Amounts(s) == [i \in 1..Len(s) |-> s[i].amount]

Range(s) == {s[i] : i \in 1..Len(s)}

-----------------------------------------------------------------------------
(* Dates *)

DaysInMonth == 30

MonthOf(d) == d \div DaysInMonth
\* The month taken to start today.
MonthStartToday(d) == d
\* datetime(now.year, now.month, 1)
MonthStart(d) == MonthOf(d) * DaysInMonth

-----------------------------------------------------------------------------
(* Auditor: src/app/services/auditor.py *)

\* Transaction.tag is Optional[str]; NoTag is Python's None.
NoTag == "<None>"
\* `t.tag` as a condition: None and "" are false.
Truthy(tag) == tag \notin {NoTag, ""}

\* [t for t in transactions if datetime.combine(t.date, min.time()) >= current_month_start]
MonthlyTransactions(txs, today) ==
    SelectSeq(txs, LAMBDA t : t.date >= MonthStart(today))

IsIncome(t) == t.type = "income"
IsExpense(t) == t.type = "expense"

MonthlyIncome(txs, today) ==
    SumSeq(Amounts(SelectSeq(MonthlyTransactions(txs, today), IsIncome)))
MonthlyExpenses(txs, today) ==
    SumSeq(Amounts(SelectSeq(MonthlyTransactions(txs, today), IsExpense)))

\* burn_rate with round(burn_rate, 2) replaced by truncation.
BurnRateTruncated(income, expenses) ==
    IF income > 0 THEN (expenses \div income) * 100 * 100 + LongDiv(expenses % income, income, 4)[1]
    ELSE IF expenses > 0 THEN 100 * 100
    ELSE 0
\* burn_rate with the ratio taken the wrong way round: income over expenses.
BurnRateInverted(income, expenses) ==
    IF income > 0 THEN (IF expenses > 0 THEN RoundPct2(income, expenses) ELSE 0)
    ELSE IF expenses > 0 THEN 100 * 100
    ELSE 0
\* burn_rate as returned: round(monthly_expenses / monthly_income * 100, 2), or 100.0, or 0.0.
BurnRate(income, expenses) ==
    IF income > 0 THEN RoundPct2(expenses, income)
    ELSE IF expenses > 0 THEN 100 * 100
    ELSE 0

\* saving_potential clamped at zero.
SavingPotentialClamped(income, expenses) == Round2(Max(income - expenses, 0))
\* saving_potential as returned: round(monthly_income - monthly_expenses, 2).
SavingPotential(income, expenses) == Round2(income - expenses)

\* tag_totals: the keys in insertion order, and the total of a key.
RECURSIVE TagKeys(_, _)
TagKeys(txs, seen) ==
    IF txs = <<>> THEN <<>>
    ELSE LET t == Head(txs) IN
         IF IsExpense(t) /\ Truthy(t.tag) /\ t.tag \notin seen
         THEN <<t.tag>> \o TagKeys(Tail(txs), seen \cup {t.tag})
         ELSE TagKeys(Tail(txs), seen)

TagTotal(txs, tag) ==
    SumSeq(Amounts(SelectSeq(txs, LAMBDA t : IsExpense(t) /\ Truthy(t.tag) /\ t.tag = tag)))

\* total > monthly_expenses * 0.15
OverThreshold(total, monthly_expenses) == total * 100 > monthly_expenses * 15

Leaks(monthly, monthly_expenses) ==
    IF monthly_expenses > 0
    THEN SelectSeq(TagKeys(monthly, {}),
                   LAMBDA tag : OverThreshold(TagTotal(monthly, tag), monthly_expenses))
    ELSE <<>>

audit_finances(txs, today) ==
    IF txs = <<>>
    THEN [monthly_income |-> 0, monthly_expenses |-> 0, burn_rate |-> 0,
          leaks |-> <<>>, saving_potential |-> 0]
    ELSE LET monthly == MonthlyTransactions(txs, today)
             monthly_income == MonthlyIncome(txs, today)
             monthly_expenses == MonthlyExpenses(txs, today)
         IN  [monthly_income |-> Round2(monthly_income),
              monthly_expenses |-> Round2(monthly_expenses),
              burn_rate |-> BurnRate(monthly_income, monthly_expenses),
              leaks |-> Leaks(monthly, monthly_expenses),
              saving_potential |-> SavingPotential(monthly_income, monthly_expenses)]

-----------------------------------------------------------------------------
(* Strategist: src/app/services/strategist.py *)

\* max(1, int(emergency_fund_goal / monthly_savings_target)), or 0
MonthsToReachGoalNoFloorOfOne(emergency_fund_goal, monthly_savings_target) ==
    IF monthly_savings_target > 0 /\ emergency_fund_goal > 0
    THEN emergency_fund_goal \div monthly_savings_target
    ELSE 0
\* The months rounded up instead of down.
MonthsToReachGoalCeiling(emergency_fund_goal, monthly_savings_target) ==
    IF monthly_savings_target > 0 /\ emergency_fund_goal > 0
    THEN Max(1, (emergency_fund_goal + monthly_savings_target - 1)
                    \div monthly_savings_target)
    ELSE 0
MonthsToReachGoal(emergency_fund_goal, monthly_savings_target) ==
    IF monthly_savings_target > 0 /\ emergency_fund_goal > 0
    THEN Max(1, emergency_fund_goal \div monthly_savings_target)
    ELSE 0

\* Unknown profiles rejected instead of taking the else branch.
AllocationKnownOnly(rp) ==
    IF rp = "low" THEN [liquid |-> 30, locked |-> 70]
    ELSE IF rp = "high" THEN [liquid |-> 70, locked |-> 30]
    ELSE IF rp = "medium" THEN [liquid |-> 50, locked |-> 50]
    ELSE [liquid |-> 0, locked |-> 0]
Allocation(rp) ==
    IF rp = "low" THEN [liquid |-> 30, locked |-> 70]
    ELSE IF rp = "high" THEN [liquid |-> 70, locked |-> 30]
    ELSE [liquid |-> 50, locked |-> 50]

create_safety_plan(rep, rp) ==
    LET monthly_expenses == rep.monthly_expenses
        saving_potential == rep.saving_potential
        emergency_fund_goal == monthly_expenses * 3
        monthly_savings_target == Max(saving_potential, 0)
    IN  [emergency_fund_goal |-> Round2(emergency_fund_goal),
         months_to_reach_goal |->
             MonthsToReachGoal(emergency_fund_goal, monthly_savings_target),
         monthly_savings_target |-> Round2(monthly_savings_target),
         allocation |-> Allocation(rp)]

-----------------------------------------------------------------------------
(* Catalyst: src/app/services/catalyst.py *)

\* max(0, monthly_savings_target - emergency_fund_monthly_contribution), rounded to
\* two decimals; the contribution goal / months is kept as a fraction.
InvestableAmountUnclamped(p) ==
    IF p.months_to_reach_goal > 0 /\ p.emergency_fund_goal > 0
    THEN RoundDiv(p.monthly_savings_target * p.months_to_reach_goal
                      - p.emergency_fund_goal,
                  p.months_to_reach_goal * Cent) * Cent
    ELSE Round2(p.monthly_savings_target)
InvestableAmount(p) ==
    IF p.months_to_reach_goal > 0 /\ p.emergency_fund_goal > 0
    THEN LET n == p.monthly_savings_target * p.months_to_reach_goal
                      - p.emergency_fund_goal
         IN  IF n > 0 THEN RoundDiv(n, p.months_to_reach_goal * Cent) * Cent ELSE 0
    ELSE Round2(Max(0, p.monthly_savings_target))

Portfolio(rp) ==
    IF rp = "low" THEN [equity |-> 30, debt |-> 50, gold |-> 10, cash |-> 10]
    ELSE IF rp = "high" THEN [equity |-> 70, debt |-> 15, gold |-> 10, cash |-> 5]
    ELSE [equity |-> 55, debt |-> 30, gold |-> 10, cash |-> 5]

ScenarioNotes(rp) ==
    IF rp = "low"
    THEN <<"Conservative portfolio suitable for low-risk tolerance",
           "Focus on capital preservation with steady returns",
           "Higher allocation to debt instruments for stability">>
    ELSE IF rp = "high"
    THEN <<"Aggressive portfolio for high-risk tolerance",
           "Higher equity exposure for long-term growth",
           "Lower cash allocation to maximize returns">>
    ELSE <<"Balanced portfolio for moderate risk tolerance",
           "Diversified allocation across asset classes",
           "Good balance between growth and stability">>

propose_portfolio(p, rp) ==
    [investable_amount |-> InvestableAmount(p),
     portfolio |-> Portfolio(rp),
     scenario_notes |-> ScenarioNotes(rp)]

-----------------------------------------------------------------------------
(* Fund catalog: src/app/services/fund_suggestions.py *)

Fund(name, type, category, risk_level, min_investment, description) ==
    [name |-> name, type |-> type, category |-> category, risk_level |-> risk_level,
     min_investment |-> Rupees(min_investment), description |-> description]

FUNDS_DATABASE ==
    << Fund("SBI Bluechip Fund", "equity", "Large Cap", "high", 5000,
            "Large cap equity fund with consistent returns"),
       Fund("HDFC Equity Fund", "equity", "Multi Cap", "high", 5000,
            "Multi cap fund for diversified equity exposure"),
       Fund("ICICI Prudential Bluechip Fund", "equity", "Large Cap", "high", 5000,
            "Large cap fund with strong track record"),
       Fund("Axis Bluechip Fund", "equity", "Large Cap", "high", 5000,
            "Large cap equity fund"),
       Fund("Mirae Asset Large Cap Fund", "equity", "Large Cap", "high", 5000,
            "Large cap fund with good returns"),
       Fund("HDFC Debt Fund", "debt", "Corporate Bond", "low", 5000,
            "Low risk debt fund for stable returns"),
       Fund("ICICI Prudential Corporate Bond Fund", "debt", "Corporate Bond", "low", 5000,
            "Corporate bond fund with low risk"),
       Fund("SBI Magnum Gilt Fund", "debt", "Gilt", "low", 5000,
            "Government securities fund"),
       Fund("HDFC Balanced Advantage Fund", "hybrid", "Balanced", "medium", 5000,
            "Balanced fund with equity and debt mix"),
       Fund("ICICI Prudential Balanced Advantage Fund", "hybrid", "Balanced", "medium", 5000,
            "Dynamic asset allocation fund"),
       Fund("SBI Gold Fund", "gold", "Gold ETF", "medium", 5000,
            "Gold ETF for portfolio diversification"),
       Fund("HDFC Gold Fund", "gold", "Gold ETF", "medium", 5000,
            "Gold investment fund") >>

\* s[:n]
Take(s, n) == SubSeq(s, 1, Min(n, Len(s)))

\* The funds that pass the minimum-investment filter.
AvailableFundsUnfiltered(amount) == FUNDS_DATABASE
AvailableFunds(amount) ==
    SelectSeq(FUNDS_DATABASE, LAMBDA f : amount = 0 \/ f.min_investment <= amount)

\* `suggested` with the medium-risk funds first for the medium branch.
SuggestedMediumRiskFirst(rp, available) ==
    IF rp = "low"
    THEN SelectSeq(available,
                   LAMBDA f : f.type \in {"debt", "hybrid"} \/ f.risk_level = "low")
         \o Take(SelectSeq(available, LAMBDA f : f.type = "equity"), 1)
    ELSE IF rp = "high"
    THEN SelectSeq(available,
                   LAMBDA f : f.type = "equity" \/ f.risk_level = "high")
         \o Take(SelectSeq(available, LAMBDA f : f.type = "debt"), 1)
    ELSE SelectSeq(available, LAMBDA f : f.risk_level = "medium")
         \o SelectSeq(available, LAMBDA f : f.risk_level # "medium")
\* `suggested` with the entry added for diversification put first.
SuggestedDiversificationFirst(rp, available) ==
    IF rp = "low"
    THEN Take(SelectSeq(available, LAMBDA f : f.type = "equity"), 1)
         \o SelectSeq(available,
                      LAMBDA f : f.type \in {"debt", "hybrid"} \/ f.risk_level = "low")
    ELSE IF rp = "high"
    THEN Take(SelectSeq(available, LAMBDA f : f.type = "debt"), 1)
         \o SelectSeq(available,
                      LAMBDA f : f.type = "equity" \/ f.risk_level = "high")
    ELSE available
\* `suggested`, before the final slice.
Suggested(rp, available) ==
    IF rp = "low"
    THEN SelectSeq(available,
                   LAMBDA f : f.type \in {"debt", "hybrid"} \/ f.risk_level = "low")
         \o Take(SelectSeq(available, LAMBDA f : f.type = "equity"), 1)
    ELSE IF rp = "high"
    THEN SelectSeq(available,
                   LAMBDA f : f.type = "equity" \/ f.risk_level = "high")
         \o Take(SelectSeq(available, LAMBDA f : f.type = "debt"), 1)
    ELSE available

get_funds_unlimited(rp, amount) == Suggested(rp, AvailableFunds(amount))
get_funds_by_risk_profile(rp, amount) == Take(Suggested(rp, AvailableFunds(amount)), 6)

\* format_fund_suggestions copies the six fields of each fund.
format_fund_suggestions(fs) ==
    [i \in 1..Len(fs) |->
        [name |-> fs[i].name, type |-> fs[i].type, category |-> fs[i].category,
         risk_level |-> fs[i].risk_level, min_investment |-> fs[i].min_investment,
         description |-> fs[i].description]]

-----------------------------------------------------------------------------
(* The auditor applied to every bounded transaction list *)

MaxAuditTx == 2

\* 3 is exactly 15% of 3 + 17; 17.004 and 3.006 are not whole numbers of
\* hundredths, the one rounds down and the other up
AuditAmounts == {Rupees(3), Rupees(3) + 6, Rupees(17), Rupees(17) + 4}
AuditTags == {NoTag, "groceries", "rent"}
\* the last day of the previous month, the 1st of the current month, the 1st of the next
AuditDates == {DaysInMonth - 1, DaysInMonth, 2 * DaysInMonth}
\* the 1st of the current month, and the middle of it
AuditNow == {DaysInMonth, DaysInMonth + 14}

AuditTx == [type : {"income", "expense"}, tag : AuditTags,
            amount : AuditAmounts, date : AuditDates]

AuditLists == UNION {[1..n -> AuditTx] : n \in 0..MaxAuditTx}

InitAudit ==
    /\ pc = "call"
    /\ now \in AuditNow
    /\ transactions \in AuditLists
    /\ report = None
    /\ risk_profile = "medium"
    /\ plan = None
    /\ proposal = None
    /\ investable_amount = 0
    /\ funds = <<>>
    /\ ServiceIdle

AuditFinances ==
    /\ pc = "call"
    /\ UNCHANGED threadVars
    /\ report' = audit_finances(transactions, now)
    /\ pc' = "audited"
    /\ UNCHANGED <<now, transactions, risk_profile, planVars, fundVars, storeVars, chatVars>>

NextAudit == AuditFinances

SpecAudit == InitAudit /\ [][NextAudit]_vars

-----------------------------------------------------------------------------
(* Claims about the auditor, checked under SpecAudit *)

\* The calendar month of the specification: the month and year of "now".
InCurrentMonth(t) == MonthOf(t.date) = MonthOf(now)
CurrentMonthTransactions == SelectSeq(transactions, InCurrentMonth)

\* Sum of the amounts of the transactions of s.
AmountOf(s) ==
    LET f[i \in 0..Len(s)] == IF i = 0 THEN 0 ELSE s[i].amount + f[i - 1]
    IN  f[Len(s)]

\* C3: a transaction counts toward monthly_income, monthly_expenses and leaks only
\* if its date is in the current calendar month: the report is the report of the
\* transactions of the current month alone; transactions dated before the 1st or in
\* a later month contribute nothing.
C3_OnlyCurrentMonthCounts ==
    pc = "audited" => report = audit_finances(CurrentMonthTransactions, now)

\* The sums the auditor computes before rounding: over the transactions dated on or
\* after the 1st of the current month.
CountedIncome ==
    AmountOf(SelectSeq(transactions,
                       LAMBDA t : t.type = "income" /\ t.date >= MonthStart(now)))
CountedExpenses ==
    AmountOf(SelectSeq(transactions,
                       LAMBDA t : t.type = "expense" /\ t.date >= MonthStart(now)))

C5_LeaksAreCurrentMonthTags ==
    pc = "audited" =>
        LET cur == CurrentMonthTransactions
            E == AmountOf(SelectSeq(cur, LAMBDA t : t.type = "expense"))
            Total(tag) == AmountOf(SelectSeq(cur,
                                   LAMBDA t : t.type = "expense" /\ t.tag = tag))
        IN  Range(report.leaks) =
                IF E > 0
                THEN {tag \in AuditTags \ {NoTag} : Total(tag) * 100 > E * 15}
                ELSE {}

-----------------------------------------------------------------------------
(* The strategist and the catalyst applied to the reports the auditor can return *)

\* "low", "medium", "high", and values that are none of them
RiskProfiles == {"low", "medium", "high", "LOW", ""}

PlanIncomes == {0, Rupees(500), Rupees(1500), Rupees(1700), Rupees(4000), Rupees(5000),
                Rupees(9000)}
PlanExpenses == {0, Rupees(1000), Rupees(1500), Rupees(3000)}

\* The report of a month with the given income and expense sums.
ReportOf(income, expenses) ==
    [monthly_income |-> Round2(income),
     monthly_expenses |-> Round2(expenses),
     burn_rate |-> BurnRate(income, expenses),
     leaks |-> <<>>,
     saving_potential |-> SavingPotential(income, expenses)]

InitPlan ==
    /\ pc = "call"
    /\ now = DaysInMonth
    /\ transactions = <<>>
    /\ report \in {ReportOf(i, e) : i \in PlanIncomes, e \in PlanExpenses}
    /\ risk_profile \in RiskProfiles
    /\ plan = None
    /\ proposal = None
    /\ investable_amount = 0
    /\ funds = <<>>
    /\ ServiceIdle

CreateSafetyPlan ==
    /\ pc = "call"
    /\ UNCHANGED threadVars
    /\ plan' = create_safety_plan(report, risk_profile)
    /\ pc' = "planned"
    /\ UNCHANGED <<now, risk_profile, auditVars, proposal, fundVars, storeVars, chatVars>>

ProposePortfolio ==
    /\ pc = "planned"
    /\ UNCHANGED threadVars
    /\ proposal' = propose_portfolio(plan, risk_profile)
    /\ pc' = "proposed"
    /\ UNCHANGED <<now, risk_profile, auditVars, plan, fundVars, storeVars, chatVars>>

NextPlan == CreateSafetyPlan \/ ProposePortfolio

SpecPlan == InitPlan /\ [][NextPlan]_vars

-----------------------------------------------------------------------------
(* Claims about the strategist and the catalyst, checked under SpecPlan *)

\* C6: the plan has emergency_fund_goal = 3 x monthly_expenses, monthly_savings_target
\* = max(saving_potential, 0), and months_to_reach_goal = max(1, floor(goal / target))
\* when both are positive (the largest m with m x target <= goal, or 1 when the goal
\* is below the target) and 0 otherwise; so months >= 1 exactly when both are positive.
C6_SafetyPlan ==
    pc \in {"planned", "proposed"} =>
        LET goal == plan.emergency_fund_goal
            target == plan.monthly_savings_target
            months == plan.months_to_reach_goal
        IN  /\ goal = 3 * report.monthly_expenses
            /\ target = (IF report.saving_potential > 0
                         THEN report.saving_potential ELSE 0)
            /\ (target > 0 /\ goal > 0 /\ goal >= target) =>
                   (months * target <= goal /\ goal < (months + 1) * target)
            /\ (target > 0 /\ goal > 0 /\ goal < target) => months = 1
            /\ ~(target > 0 /\ goal > 0) => months = 0
            /\ (months >= 1) <=> (target > 0 /\ goal > 0)

\* monthly_expenses = 1000, saving_potential = 500: goal 3000, target 500, 6 months.
C6_Witness ==
    /\ pc = "planned"
    /\ report.monthly_expenses = Rupees(1000)
    /\ report.saving_potential = Rupees(500)
    /\ plan.emergency_fund_goal = Rupees(3000)
    /\ plan.monthly_savings_target = Rupees(500)
    /\ plan.months_to_reach_goal = 6

\* C7: investable_amount = max(0, monthly_savings_target - c), with c = goal / months
\* when months > 0 and goal > 0 and c = 0 otherwise; it is never negative.
C7_InvestableAmount ==
    pc = "proposed" =>
        LET goal == plan.emergency_fund_goal
            target == plan.monthly_savings_target
            months == plan.months_to_reach_goal
            inv == proposal.investable_amount
        IN  /\ inv >= 0
            /\ (months > 0 /\ goal > 0) =>
                   inv * months = (IF target * months > goal
                                   THEN target * months - goal ELSE 0)
            /\ ~(months > 0 /\ goal > 0) => inv = (IF target > 0 THEN target ELSE 0)

\* target 500, goal 3000, 6 months: the contribution is 500 and nothing is investable.
C7_Witness ==
    /\ pc = "proposed"
    /\ plan.monthly_savings_target = Rupees(500)
    /\ plan.emergency_fund_goal = Rupees(3000)
    /\ plan.months_to_reach_goal = 6
    /\ proposal.investable_amount = 0

\* C8: for every risk_profile value the portfolio percentages sum to 100 and the
\* allocation percentages sum to 100; low, medium and high select their own tables
\* and every other value selects the medium tables.
C8_Tables ==
    pc = "proposed" =>
        LET p == proposal.portfolio
            a == plan.allocation
        IN  /\ p.equity + p.debt + p.gold + p.cash = 100
            /\ a.liquid + a.locked = 100
            /\ risk_profile = "low" =>
                   /\ p = [equity |-> 30, debt |-> 50, gold |-> 10, cash |-> 10]
                   /\ a = [liquid |-> 30, locked |-> 70]
            /\ risk_profile = "high" =>
                   /\ p = [equity |-> 70, debt |-> 15, gold |-> 10, cash |-> 5]
                   /\ a = [liquid |-> 70, locked |-> 30]
            /\ risk_profile \notin {"low", "high"} =>
                   /\ p = [equity |-> 55, debt |-> 30, gold |-> 10, cash |-> 5]
                   /\ a = [liquid |-> 50, locked |-> 50]

\* A risk_profile that is none of low, medium, high gets the medium tables.
C8_Witness ==
    /\ pc = "proposed"
    /\ risk_profile = "LOW"
    /\ proposal.portfolio = [equity |-> 55, debt |-> 30, gold |-> 10, cash |-> 5]
    /\ plan.allocation = [liquid |-> 50, locked |-> 50]

-----------------------------------------------------------------------------
(* The fund selection applied to every risk profile and bounded amount *)

FundAmounts ==
    {0, Cent, Rupees(1), Rupees(999), Rupees(1000), Rupees(4999), Rupees(5000) - Cent,
     Rupees(5000), Rupees(5000) + Cent, Rupees(6000), Rupees(10000), Rupees(100000)}

InitFunds ==
    /\ pc = "call"
    /\ now = DaysInMonth
    /\ transactions = <<>>
    /\ report = None
    /\ risk_profile \in RiskProfiles
    /\ plan = None
    /\ proposal = None
    /\ investable_amount \in FundAmounts
    /\ funds = <<>>
    /\ ServiceIdle

GetFundsByRiskProfile ==
    /\ pc = "call"
    /\ UNCHANGED threadVars
    /\ funds' = get_funds_by_risk_profile(risk_profile, investable_amount)
    /\ pc' = "selected"
    /\ UNCHANGED <<now, risk_profile, auditVars, planVars, investable_amount, storeVars, chatVars>>

NextFunds == GetFundsByRiskProfile

SpecFunds == InitFunds /\ [][NextFunds]_vars

-----------------------------------------------------------------------------
(* Claims about the fund selection, checked under SpecFunds *)

\* C9: for a nonzero investable_amount no returned fund has a min_investment above
\* it; for investable_amount = 0 the minimum-investment filter is not applied (funds
\* are returned although every min_investment exceeds 0).
C9_MinInvestment ==
    pc = "selected" =>
        /\ investable_amount # 0 =>
               \A i \in 1..Len(funds) : funds[i].min_investment <= investable_amount
        /\ investable_amount = 0 =>
               /\ Len(funds) = 6
               /\ \A i \in 1..Len(funds) : funds[i].min_investment > investable_amount

\* An amount just under the minimum of every fund selects nothing.
C9_Witness ==
    /\ pc = "selected"
    /\ investable_amount = Rupees(5000) - Cent
    /\ funds = <<>>

\* C10: at most 6 funds are returned; for low at most 1 is an equity fund and the
\* others are debt, hybrid or low-risk; for high at most 1 is a debt fund and the
\* others are equity or high-risk; for medium and unknown profiles the result is the
\* first 6 entries of the filtered catalog in catalog order.
C10_Selection ==
    pc = "selected" =>
        LET n == Len(funds)
            filtered ==
                SelectSeq(FUNDS_DATABASE,
                          LAMBDA f : investable_amount = 0
                                     \/ f.min_investment <= investable_amount)
        IN  /\ n <= 6
            /\ risk_profile = "low" =>
                   /\ Cardinality({i \in 1..n : funds[i].type = "equity"}) <= 1
                   /\ \A i \in 1..n :
                          \/ funds[i].type \in {"equity", "debt", "hybrid"}
                          \/ funds[i].risk_level = "low"
            /\ risk_profile = "high" =>
                   /\ Cardinality({i \in 1..n : funds[i].type = "debt"}) <= 1
                   /\ \A i \in 1..n :
                          \/ funds[i].type \in {"debt", "equity"}
                          \/ funds[i].risk_level = "high"
            /\ risk_profile \notin {"low", "high"} =>
                   /\ n = (IF Len(filtered) < 6 THEN Len(filtered) ELSE 6)
                   /\ \A i \in 1..n : funds[i] = filtered[i]

\* A low-risk selection: five debt or hybrid funds, then the one equity fund.
C10_Witness ==
    /\ pc = "selected"
    /\ risk_profile = "low"
    /\ investable_amount = Rupees(5000)
    /\ Len(funds) = 6
    /\ funds[6].type = "equity"
    /\ \A i \in 1..5 : funds[i].type \in {"debt", "hybrid"}

-----------------------------------------------------------------------------
(* The JSON store: src/app/db/json_storage.py *)

\* A stored date is the ISO string of a date, read back with strptime: the same
\* day ordinal.  A user record keeps the fields that decide behaviour (id,
\* risk_profile); a transaction record omits category.

\* A stored "date" that strptime rejects, and a stored "amount" that is not a
\* number: values no date and no amount of the model takes.
BadDate == 0 - 1
BadAmount == 0 - 1

RECURSIVE MaxId(_)
MaxId(rows) == IF rows = <<>> THEN 0 ELSE Max(Head(rows).id, MaxId(Tail(rows)))

\* new_id of create_user and create_transaction
NewIdNoIncrement(rows) == IF rows = <<>> THEN 1 ELSE MaxId(rows)
NewId(rows) == IF rows = <<>> THEN 1 ELSE MaxId(rows) + 1

get_user(users, user_id) ==
    LET found == SelectSeq(users, LAMBDA u : u.id = user_id)
    IN  IF found = <<>> THEN None ELSE Head(found)

create_user(users, rp) == Append(users, [id |-> NewId(users), risk_profile |-> rp])

\* list.sort(key = date, reverse = True): descending, equal dates keep their order.
RECURSIVE SortByDateDesc(_)
SortByDateDesc(rows) ==
    IF rows = <<>> THEN <<>>
    ELSE LET n == Len(rows)
             last == rows[n]
             front == SortByDateDesc(SubSeq(rows, 1, n - 1))
         IN  SelectSeq(front, LAMBDA t : t.date >= last.date)
             \o <<last>>
             \o SelectSeq(front, LAMBDA t : t.date < last.date)

\* strptime of each stored date, today on ValueError.
StoredDates(rows, today) ==
    [i \in 1..Len(rows) |->
        IF rows[i].date = BadDate THEN [rows[i] EXCEPT !.date = today] ELSE rows[i]]

get_transactions(rows, user_id, today) ==
    SortByDateDesc(SelectSeq(StoredDates(rows, today),
                             LAMBDA t : t.user_id = user_id))

create_transaction(rows, user_id, amount, type, tag, date) ==
    Append(rows, [id |-> NewId(rows), user_id |-> user_id, amount |-> amount,
                  type |-> type, tag |-> tag, date |-> date])

-----------------------------------------------------------------------------
(* The language-model collaborators, as the service sees them *)

\* A provider call that raised, and a provider that was not called.
Raises == [raises |-> TRUE]
NotCalled == [not_called |-> TRUE]

\* JSON values a reply may carry under "should_intervene"; Missing: no such key.
Missing == "<missing>"
ShouldInterveneValues == {"true", "false", "null", "\"false\"", Missing}

\* bool(v) of such a value: a non-empty string is true.
TruthyJson(v) == v \in {"true", "\"false\""}

\* dict.get("should_intervene", False)
GetShouldIntervene(reply) ==
    IF reply.should_intervene = Missing THEN "false" ELSE reply.should_intervene

\* A message that is None.
NoMessage == "<None>"
RegretMessages == {NoMessage, "Bhai, yeh paise invest kar sakta tha"}

\* What json.loads returned: an object with the two keys the service reads, or a
\* value that is not an object (a list, a string, a number).
NotAnObject == [kind |-> "not_object"]
ReplyObjects ==
    [kind : {"object"}, should_intervene : ShouldInterveneValues,
     regret_message : RegretMessages]
Replies == ReplyObjects \cup {NotAnObject}

-----------------------------------------------------------------------------
(* The autonomous coach: src/app/services/autonomous_coach.py *)

\* ", ".join(tags) if tags else "expense"
RECURSIVE Join(_)
Join(tags) ==
    IF Len(tags) = 1 THEN tags[1] ELSE tags[1] \o ", " \o Join(Tail(tags))

TagString(tags) == IF tags = <<>> THEN "expense" ELSE Join(tags)

\* An element of tags that is not a string (a number, null): join raises TypeError.
NonStringTag == "<non-string>"
JoinRaises(tags) == \E i \in 1..Len(tags) : tags[i] = NonStringTag

\* The keys of expense_tags.
ExpenseTags(recent) ==
    {recent[i].tag : i \in {j \in 1..Len(recent) : recent[j].type = "expense"}}

\* t_datetime >= datetime.now() - timedelta(days=7), t_datetime being midnight of
\* day d; time_of_day is 0 when now is midnight to the microsecond.
WithinLastWeek(d, today, time_of_day) ==
    IF time_of_day = 0 THEN d >= today - 7 ELSE d > today - 7

RecentTagSpendingAnyDate(recent, current_tag, today, time_of_day) ==
    SumSeq(Amounts(SelectSeq(recent,
        LAMBDA t : t.type = "expense" /\ t.tag = current_tag)))
RecentTagSpending(recent, current_tag, today, time_of_day) ==
    SumSeq(Amounts(SelectSeq(recent,
        LAMBDA t : /\ t.type = "expense"
                   /\ t.tag = current_tag
                   /\ WithinLastWeek(t.date, today, time_of_day))))

\* investable_amount of analyze_and_coach
CoachInvestableAmount(data, recent, today, time_of_day) ==
    LET current_tag == TagString(data.tags)
        recent_tag_spending == RecentTagSpending(recent, current_tag, today, time_of_day)
        surplus == IF data.income > 0 THEN Max(0, data.income - data.expense) ELSE 0
    IN  IF recent_tag_spending > 0 /\ current_tag \in ExpenseTags(recent)
        THEN Max(surplus, recent_tag_spending)
        ELSE surplus

\* fund_suggestions of analyze_and_coach
CoachFundSuggestionsAlways(intervene, rp, amount) ==
    IF amount >= Rupees(1000)
    THEN format_fund_suggestions(Take(get_funds_by_risk_profile(rp, amount), 2))
    ELSE <<>>
CoachFundSuggestions(intervene, rp, amount) ==
    IF intervene /\ amount >= Rupees(1000)
    THEN format_fund_suggestions(Take(get_funds_by_risk_profile(rp, amount), 2))
    ELSE <<>>

\* The response when coaching is unavailable.
DefaultCoaching ==
    [should_intervene |-> "false", regret_message |-> NoMessage, fund_suggestions |-> <<>>]

\* Gemini first; Ollama when Gemini gave None.  An Ollama call that raises gives
\* the default response; a reply that is not an object has no .get, and the
\* AttributeError leaves analyze_and_coach.
analyze_and_coach(data, user, all_transactions, today, time_of_day, gemini, ollama) ==
    LET coaching_result == IF gemini # None THEN gemini ELSE ollama
        recent_transactions == Take(all_transactions, 20)
    IN  IF JoinRaises(data.tags)
        THEN [outcome |-> "raised", value |-> None]
        ELSE IF coaching_result = Raises
        THEN [outcome |-> "returned", value |-> DefaultCoaching]
        ELSE IF coaching_result.kind # "object"
        THEN [outcome |-> "raised", value |-> None]
        ELSE [outcome |-> "returned",
              value |->
                [should_intervene |-> GetShouldIntervene(coaching_result),
                 regret_message |-> coaching_result.regret_message,
                 fund_suggestions |->
                    CoachFundSuggestions(
                        TruthyJson(GetShouldIntervene(coaching_result)),
                        user.risk_profile,
                        CoachInvestableAmount(data, recent_transactions,
                                              today, time_of_day))]]

-----------------------------------------------------------------------------
(* POST /users and POST /chat/message: src/app/routers/users.py, nlp.py *)

MaxUsers == 1
MaxTransactions == 2

\* The ids a request may name: every id ever issued, and one never issued.
UserIds == 1..(MaxUsers + 1)

HTTPException(status_code, detail) == [status |-> status_code, detail |-> detail]

\* What the form carries: neither text nor audio (or an empty text), a text, a text
\* of white space, an audio file, one whose transcript is blank, and one the
\* transcription fails on.
Inputs == {"none", "text", "blank_text", "audio", "audio_blank", "audio_fails"}

\* The day the service runs on.
ChatToday == DaysInMonth + 14

ChatIncomes == {0, Rupees(6000)}
ChatExpenses == {0, Rupees(1000)}
ChatTags == {<<>>, <<"cigarettes">>}
ChatDates == {ChatToday}

\* What extraction yields once its defaults are set (a missing date is today's):
\* here an expense comes with a tag and an income alone comes with none.  The
\* types of income and expense are checked by extract_transaction, their signs
\* and the elements of tags are not: a negative income, and a tag that is not a
\* string.
ChatData ==
    {d \in [income : ChatIncomes, expense : ChatExpenses, tags : ChatTags,
            date : ChatDates] : (d.tags = <<>>) <=> (d.expense = 0)}
    \cup {[income |-> 0 - Rupees(500), expense |-> 0, tags |-> <<>>,
           date |-> ChatToday],
          [income |-> Rupees(6000), expense |-> Rupees(1000),
           tags |-> <<NonStringTag>>, date |-> ChatToday]}

\* Gemini first; Ollama when Gemini gave None; an exception when Ollama fails too.
extract_transaction(gemini, ollama) == IF gemini # None THEN gemini ELSE ollama

\* datetime.strptime(date, "%Y-%m-%d").date(), today on ValueError
ParseDate(d, today) == IF d = BadDate THEN today ELSE d

\* The income record saved for every amount other than zero.
SaveIncomeAnyAmount(rows, user_id, data, today) ==
    IF data.income # 0
    THEN create_transaction(rows, user_id, data.income, "income", "income",
                            ParseDate(data.date, today))
    ELSE rows
\* The income record, only for a positive amount.
SaveIncome(rows, user_id, data, today) ==
    IF data.income > 0
    THEN create_transaction(rows, user_id, data.income, "income", "income",
                            ParseDate(data.date, today))
    ELSE rows

\* The expense record not saved before the coach is called.
SaveTransactionsIncomeOnly(rows, user_id, data, today) ==
    SaveIncome(rows, user_id, data, today)
\* The expense record saved before the income record.
SaveTransactionsExpenseFirst(rows, user_id, data, today) ==
    LET transaction_date == ParseDate(data.date, today)
        with_expense ==
            IF data.expense > 0
            THEN create_transaction(rows, user_id, data.expense, "expense",
                                    TagString(data.tags), transaction_date)
            ELSE rows
    IN  SaveIncome(with_expense, user_id, data, today)
\* The income record, then the expense record, each only for a positive amount.
SaveTransactions(rows, user_id, data, today) ==
    LET transaction_date == ParseDate(data.date, today)
        with_income == SaveIncome(rows, user_id, data, today)
    IN  IF data.expense > 0
        THEN create_transaction(with_income, user_id, data.expense, "expense",
                                TagString(data.tags), transaction_date)
        ELSE with_income

\* The handler's coaching_response: the default when analyze_and_coach raised.
CoachingResponse(c) == IF c.outcome = "raised" THEN DefaultCoaching ELSE c.value

\* The response body built from coaching_response.
ResponseBody(coaching_response) ==
    IF TruthyJson(coaching_response.should_intervene)
    THEN IF coaching_response.fund_suggestions # <<>>
         THEN [success |-> TRUE, message |-> coaching_response.regret_message,
               fund_suggestions |-> coaching_response.fund_suggestions]
         ELSE [success |-> TRUE, message |-> coaching_response.regret_message]
    ELSE [success |-> TRUE, message |-> NoMessage]

ChatResponseUncaught(c) ==
    IF c.outcome = "raised"
    THEN HTTPException(500, "Internal Server Error")
    ELSE [status |-> 200, body |-> ResponseBody(c.value)]
ChatResponse(c) == [status |-> 200, body |-> ResponseBody(CoachingResponse(c))]

-----------------------------------------------------------------------------
(* The service: users are created and messages are handled, one request at a time *)

Init ==
    /\ pc = "idle"
    /\ now = ChatToday
    /\ transactions = <<>>
    /\ report = None
    /\ risk_profile = "medium"
    /\ plan = None
    /\ proposal = None
    /\ investable_amount = 0
    /\ funds = <<>>
    /\ ServiceIdle

\* No pipeline stage has run for the request.
ResetPipeline ==
    /\ transactions' = <<>>
    /\ report' = None
    /\ risk_profile' = "medium"
    /\ plan' = None
    /\ proposal' = None
    /\ investable_amount' = 0
    /\ funds' = <<>>

\* The request ends with an HTTP error, a row having been saved.
RejectAfterSaving(req, error) ==
    /\ request' = req
    /\ response' = error
    /\ transaction_data' = None
    /\ collaborator' = None
    /\ coaching' = None
    /\ pc' = "idle"
    /\ transactions_file' = create_transaction(transactions_file, 1, Rupees(1),
                                               "expense", "expense", now)
    /\ UNCHANGED users_file

\* The request ends with an HTTP error; nothing is saved.
Reject(req, error) ==
    /\ request' = req
    /\ response' = error
    /\ transaction_data' = None
    /\ collaborator' = None
    /\ coaching' = None
    /\ pc' = "idle"
    /\ UNCHANGED storeVars

\* POST /users
CreateUser ==
    /\ pc = "idle"
    /\ UNCHANGED threadVars
    /\ \E rp \in {"low", "medium", "high", "LOW"} :
          LET req == [endpoint |-> "/users", risk_profile |-> rp]
          IN  IF rp \notin {"low", "medium", "high"}
              THEN Reject(req, HTTPException(400,
                              "risk_profile must be one of: low, medium, high"))
              ELSE /\ Len(users_file) < MaxUsers
                   /\ users_file' = create_user(users_file, rp)
                   /\ request' = req
                   /\ response' = [status |-> 201, body |-> users_file'[Len(users_file')]]
                   /\ transaction_data' = None
                   /\ collaborator' = None
                   /\ coaching' = None
                   /\ pc' = "idle"
                   /\ UNCHANGED transactions_file
    /\ ResetPipeline
    /\ UNCHANGED now

\* The error the handler raises before extraction, None when it goes on.
\* The validation without the look-up of the user.
InputErrorUserUnchecked(user, input) ==
    IF input = "none"
    THEN HTTPException(400, "Either 'text' or 'audio' must be provided")
    ELSE IF input = "audio_fails"
    THEN HTTPException(500, "Failed to transcribe audio")
    ELSE IF input \in {"blank_text", "audio_blank"}
    THEN HTTPException(400, "No text content found in input")
    ELSE None
InputError(user, input) ==
    IF input = "none"
    THEN HTTPException(400, "Either 'text' or 'audio' must be provided")
    ELSE IF user = None
    THEN HTTPException(404, "User not found")
    ELSE IF input = "audio_fails"
    THEN HTTPException(500, "Failed to transcribe audio")
    ELSE IF input \in {"blank_text", "audio_blank"}
    THEN HTTPException(400, "No text content found in input")
    ELSE None

\* The provider answers extract_transaction may get.
GeminiExtractions == {None} \cup ChatData
\* Ollama asked whatever Gemini gave.
OllamaExtractionsAlways(gemini) == {Raises} \cup ChatData
OllamaExtractions(gemini) ==
    IF gemini = None THEN {Raises} \cup ChatData ELSE {NotCalled}

\* The provider answers analyze_and_coach may get.
GeminiReplies == {None} \cup Replies
OllamaReplies(gemini) ==
    IF gemini = None THEN {Raises} \cup Replies ELSE {NotCalled}

\* What became of a provider during extraction: the extracted data are kept in
\* transaction_data, here only whether the provider answered.
Answered == [answered |-> TRUE]
Outcome(answer) == IF answer \in {None, Raises, NotCalled} THEN answer ELSE Answered
Contacted(gemini, ollama) == [gemini |-> Outcome(gemini), ollama |-> Outcome(ollama)]

\* POST /chat/message up to the call of the coach: validation, transcription,
\* extraction, and the saving of the extracted transactions.  The request keeps
\* neither the input nor the provider that answered, so the step is written by
\* outcome: an error of the input, a failed extraction, or extracted data (and
\* then either both rows saved, or an exception between the two).
ReceiveMessage ==
    /\ pc = "idle"
    /\ UNCHANGED threadVars
    /\ \E user_id \in UserIds :
          LET req == [endpoint |-> "/chat/message", user_id |-> user_id,
                      has_input |-> TRUE]
              user == get_user(users_file, user_id)
              errors == {InputError(user, input) : input \in Inputs \ {"none"}}
              extractions ==
                  UNION {{[data |-> extract_transaction(gemini, ollama),
                           collaborator |-> Contacted(gemini, ollama)] :
                             ollama \in OllamaExtractions(gemini)} :
                         gemini \in GeminiExtractions}
          IN  \/ Reject([req EXCEPT !.has_input = FALSE], InputError(user, "none"))
              \/ \E error \in errors \ {None} : Reject(req, error)
              \/ /\ None \in errors
                 /\ \E extraction \in extractions :
                       LET data == extraction.data IN
                       IF data = Raises
                       THEN /\ request' = req
                            /\ response' = HTTPException(500,
                                                "Failed to extract transaction")
                            /\ transaction_data' = None
                            /\ collaborator' = extraction.collaborator
                            /\ coaching' = None
                            /\ pc' = "idle"
                            /\ UNCHANGED storeVars
                       ELSE IF data.expense > 0 /\ JoinRaises(data.tags)
                       THEN \* the income row is saved, then join raises
                            LET saved == SaveIncome(transactions_file, user_id,
                                                    data, now)
                            IN  /\ Len(saved) <= MaxTransactions
                                /\ transactions_file' = saved
                                /\ request' = req
                                /\ transaction_data' = data
                                /\ collaborator' = extraction.collaborator
                                /\ coaching' = None
                                /\ response' = HTTPException(500,
                                                    "Internal Server Error")
                                /\ pc' = "idle"
                                /\ UNCHANGED users_file
                       ELSE LET saved == SaveTransactions(transactions_file, user_id,
                                                          data, now)
                            IN  /\ Len(saved) <= MaxTransactions
                                /\ transactions_file' = saved
                                /\ request' = req
                                /\ transaction_data' = data
                                /\ collaborator' = extraction.collaborator
                                /\ coaching' = None
                                /\ response' = None
                                /\ pc' = "coach"
                                /\ UNCHANGED users_file
    /\ ResetPipeline
    /\ UNCHANGED now

\* POST /chat/message from the call of the coach to the response.  No other
\* request is served between ReceiveMessage and this step.
CoachAndRespond ==
    /\ pc = "coach"
    /\ UNCHANGED threadVars
    /\ LET user == get_user(users_file, request.user_id)
           all_transactions == get_transactions(transactions_file, request.user_id,
                                                now)
           \* what the call may come to, over the time of day and the providers
           outcomes ==
               UNION {UNION {{[collaborator |-> [gemini |-> gemini, ollama |-> ollama],
                               coaching |->
                                  analyze_and_coach(transaction_data, user,
                                                    all_transactions, now,
                                                    time_of_day, gemini, ollama)] :
                                 ollama \in OllamaReplies(gemini)} :
                             gemini \in GeminiReplies} :
                      time_of_day \in {0, 1}}
       IN  \E outcome \in outcomes :
              /\ collaborator' = outcome.collaborator
              /\ coaching' = outcome.coaching
              /\ response' = ChatResponse(outcome.coaching)
    /\ pc' = "idle"
    /\ UNCHANGED <<now, risk_profile, auditVars, planVars, fundVars, storeVars,
                   request, transaction_data>>

\* Transaction(**t): pydantic rejects an amount that is not a number.
TransactionValid(t) == t.amount # BadAmount

\* The error /coach/advise and /coach/investment-plan end with before the auditor
\* runs, None when they go on: unknown user, no transactions, and the validation
\* error of Transaction(**t), which no handler catches.
PipelineErrorUnknownUserCrashes(user, transactions_data) ==
    IF user = None
    THEN HTTPException(500, "Internal Server Error")
    ELSE IF transactions_data = <<>>
    THEN HTTPException(404, "No transactions found for this user")
    ELSE IF \E i \in 1..Len(transactions_data) : ~TransactionValid(transactions_data[i])
    THEN HTTPException(500, "Internal Server Error")
    ELSE None
PipelineError(user, transactions_data) ==
    IF user = None
    THEN HTTPException(404, "User not found")
    ELSE IF transactions_data = <<>>
    THEN HTTPException(404, "No transactions found for this user")
    ELSE IF \E i \in 1..Len(transactions_data) : ~TransactionValid(transactions_data[i])
    THEN HTTPException(500, "Internal Server Error")
    ELSE None

\* auditor -> strategist -> catalyst, then the fund suggestions of
\* /coach/investment-plan (the first five).
RunPipeline(user, transactions_data, today) ==
    LET rep == audit_finances(transactions_data, today)
        pl == create_safety_plan(rep, user.risk_profile)
        prop == propose_portfolio(pl, user.risk_profile)
    IN  [report |-> rep, plan |-> pl, proposal |-> prop,
         fund_suggestions |->
            format_fund_suggestions(
                Take(get_funds_by_risk_profile(user.risk_profile,
                                               prop.investable_amount), 5))]

\* generate_conversational_summary: of the sentences of the message, the one
\* about the savings plan, "If you save <monthly_savings>/month, you'll complete
\* your emergency fund in <months_to_goal> months.", None when it is left out.
\* The other sentences restate the latest transaction, burn_rate and portfolio.
SavingsSentence(p) ==
    IF p.monthly_savings_target > 0 /\ p.months_to_reach_goal > 0
    THEN [monthly_savings |-> p.monthly_savings_target,
          months_to_goal |-> p.months_to_reach_goal]
    ELSE None

\* POST /coach/advise
CoachAdvise ==
    /\ pc = "idle"
    /\ UNCHANGED threadVars
    /\ \E user_id \in UserIds :
          LET user == get_user(users_file, user_id)
              transactions_data == get_transactions(transactions_file, user_id, now)
              error == PipelineError(user, transactions_data)
              out == RunPipeline(user, transactions_data, now)
          IN  /\ request' = [endpoint |-> "/coach/advise", user_id |-> user_id,
                             received |-> now]
              /\ IF error # None
                 THEN response' = error /\ ResetPipeline
                 ELSE /\ transactions' = transactions_data
                      /\ report' = out.report
                      /\ risk_profile' = user.risk_profile
                      /\ plan' = out.plan
                      /\ proposal' = out.proposal
                      /\ investable_amount' = 0
                      /\ funds' = <<>>
                      /\ response' =
                            [status |-> 200,
                             body |-> [transaction |-> transactions_data[1],
                                       report |-> out.report, plan |-> out.plan,
                                       proposal |-> out.proposal,
                                       message |-> SavingsSentence(out.plan)]]
    /\ transaction_data' = None
    /\ collaborator' = None
    /\ coaching' = None
    /\ pc' = "idle"
    /\ UNCHANGED <<now, storeVars>>

\* POST /coach/investment-plan
InvestmentPlan ==
    /\ pc = "idle"
    /\ UNCHANGED threadVars
    /\ \E user_id \in UserIds :
          LET user == get_user(users_file, user_id)
              transactions_data == get_transactions(transactions_file, user_id, now)
              error == PipelineError(user, transactions_data)
              out == RunPipeline(user, transactions_data, now)
          IN  /\ request' = [endpoint |-> "/coach/investment-plan",
                             user_id |-> user_id, received |-> now]
              /\ IF error # None
                 THEN response' = error /\ ResetPipeline
                 ELSE /\ transactions' = transactions_data
                      /\ report' = out.report
                      /\ risk_profile' = user.risk_profile
                      /\ plan' = out.plan
                      /\ proposal' = out.proposal
                      /\ investable_amount' = out.proposal.investable_amount
                      /\ funds' = out.fund_suggestions
                      /\ response' =
                            [status |-> 200,
                             body |-> [user |-> user,
                                       financial_summary |->
                                          [monthly_income |-> out.report.monthly_income,
                                           monthly_expenses |-> out.report.monthly_expenses,
                                           saving_potential |-> out.report.saving_potential,
                                           burn_rate |-> out.report.burn_rate],
                                       safety_plan |-> out.plan,
                                       investment_plan |->
                                          [investable_amount |->
                                              out.proposal.investable_amount,
                                           portfolio_allocation |->
                                              out.proposal.portfolio,
                                           scenario_notes |->
                                              out.proposal.scenario_notes,
                                           fund_suggestions |->
                                              out.fund_suggestions]]]
    /\ transaction_data' = None
    /\ collaborator' = None
    /\ coaching' = None
    /\ pc' = "idle"
    /\ UNCHANGED <<now, storeVars>>

Next ==
    \/ CreateUser
    \/ ReceiveMessage
    \/ CoachAndRespond
    \/ CoachAdvise
    \/ InvestmentPlan

Spec == Init /\ [][Next]_vars

-----------------------------------------------------------------------------
(* Claims about /chat/message and the coach, checked under Spec *)

\* The last request was a message that reached the coach, and it is answered.
CoachWasCalled ==
    /\ pc = "idle"
    /\ request # None
    /\ request.endpoint = "/chat/message"
    /\ coaching # None

\* The response carries message = null and no fund_suggestions field.
SilentResponse ==
    /\ response.status = 200
    /\ response.body.success
    /\ response.body.message = NoMessage
    /\ "fund_suggestions" \notin DOMAIN response.body

\* C1: whenever the should_intervene that analyze_and_coach returns is false (or
\* any other value that counts as false), the fund_suggestions it returns is the
\* empty list, and the /chat/message response carries message = null and no
\* fund_suggestions field.
C1_NoSuggestionsWithoutIntervention ==
    (/\ CoachWasCalled
     /\ coaching.outcome = "returned"
     /\ ~TruthyJson(coaching.value.should_intervene))
    =>  /\ coaching.value.fund_suggestions = <<>>
        /\ SilentResponse

\* The collaborator said should_intervene = false and yet gave a regret message,
\* after a message whose surplus (6000) would have bought funds: nothing of it
\* reaches the response.
C1_Witness ==
    /\ CoachWasCalled
    /\ transaction_data.income = Rupees(6000)
    /\ transaction_data.expense = 0
    /\ collaborator.gemini \in ReplyObjects
    /\ collaborator.gemini.should_intervene = "false"
    /\ collaborator.gemini.regret_message # NoMessage
    /\ coaching.outcome = "returned"
    /\ coaching.value.should_intervene = "false"
    /\ coaching.value.fund_suggestions = <<>>
    /\ response = [status |-> 200, body |-> [success |-> TRUE, message |-> NoMessage]]

\* The collaborator was unreachable or unparsable: Gemini gave no result and the
\* Ollama call raised.
CollaboratorUnreachable ==
    /\ collaborator.gemini = None
    /\ collaborator.ollama = Raises

\* The reply the coach went on with is not a JSON object.
ReplyNotAnObject ==
    \/ collaborator.gemini = NotAnObject
    \/ collaborator.gemini = None /\ collaborator.ollama = NotAnObject

\* The rows the last message asked to save are the last rows of the file: the
\* income row, then the expense row.
ExtractedTransactionsPersisted ==
    LET rows == transactions_file
        n == Len(rows)
        e == IF transaction_data.expense > 0 THEN 1 ELSE 0
        i == IF transaction_data.income > 0 THEN 1 ELSE 0
    IN  /\ n >= e + i
        /\ e = 1 =>
              /\ rows[n].user_id = request.user_id
              /\ rows[n].type = "expense"
              /\ rows[n].amount = transaction_data.expense
        /\ i = 1 =>
              /\ rows[n - e].user_id = request.user_id
              /\ rows[n - e].type = "income"
              /\ rows[n - e].amount = transaction_data.income

\* C2: when Gemini yields no result and the Ollama call raises, or the reply is
\* not a JSON object, the coaching response the handler goes on with has
\* should_intervene = false and an empty suggestion list, the request succeeds
\* with message = null and no fund suggestions, and the transactions extracted
\* from the message are in the transaction file.
C2_DegradesSilently ==
    (CoachWasCalled /\ (CollaboratorUnreachable \/ ReplyNotAnObject))
    =>  /\ CoachingResponse(coaching).should_intervene = "false"
        /\ CoachingResponse(coaching).fund_suggestions = <<>>
        /\ SilentResponse
        /\ ExtractedTransactionsPersisted

\* Ollama answered with something that is not an object, after a message with an
\* income and an expense: analyze_and_coach raised, the request succeeded, and
\* both rows are in the file.
C2_Witness ==
    /\ CoachWasCalled
    /\ collaborator = [gemini |-> None, ollama |-> NotAnObject]
    /\ coaching.outcome = "raised"
    /\ transaction_data.income = Rupees(6000)
    /\ transaction_data.expense = Rupees(1000)
    /\ Len(transactions_file) = 2
    /\ transactions_file[1].type = "income"
    /\ transactions_file[2].type = "expense"
    /\ response = [status |-> 200, body |-> [success |-> TRUE, message |-> NoMessage]]

-----------------------------------------------------------------------------
(* The coach applied to every bounded message, history, user and reply *)

MaxHistory == 2

CoachData == [income : {0, Rupees(6000)}, expense : {0, Rupees(600)},
              tags : ChatTags, date : ChatDates]

\* Expenses of user 1 dated today, a week ago to the day, and the day before that.
CoachRows ==
    [user_id : {1}, type : {"expense"}, tag : {"cigarettes", "expense"},
     amount : {Rupees(6000)},
     date : {ChatToday, ChatToday - 7, ChatToday - 8}]

\* The files a history of n rows is stored as: the i-th row has id i.
CoachHistories ==
    UNION {{[i \in 1..n |->
                [id |-> i, user_id |-> h[i].user_id, amount |-> h[i].amount,
                 type |-> h[i].type, tag |-> h[i].tag, date |-> h[i].date]] :
            h \in [1..n -> CoachRows]} : n \in 0..MaxHistory}

\* handle_message is about to call analyze_and_coach for user 1.
InitCoach ==
    /\ pc = "coach"
    /\ now = ChatToday
    /\ transactions = <<>>
    /\ report = None
    /\ risk_profile = "medium"
    /\ plan = None
    /\ proposal = None
    /\ investable_amount = 0
    /\ funds = <<>>
    /\ \E rp \in {"low", "medium", "high"} :
          users_file = <<[id |-> 1, risk_profile |-> rp]>>
    /\ transactions_file \in CoachHistories
    /\ request = [endpoint |-> "/chat/message", user_id |-> 1, has_input |-> TRUE]
    /\ transaction_data \in CoachData
    /\ collaborator = None
    /\ coaching = None
    /\ response = None
    /\ ThreadsIdle

NextCoach == CoachAndRespond

SpecCoach == InitCoach /\ [][NextCoach]_vars

-----------------------------------------------------------------------------
(* Claims about the coach, checked under SpecCoach *)

\* The rows of the user the request names, expenses on the current tag, dated
\* within the last 7 days (the day a week ago included).
SevenDaySpendOnCurrentTag ==
    LET current_tag == IF transaction_data.tags = <<>> THEN "expense"
                       ELSE transaction_data.tags[1]
        rows == SelectSeq(transactions_file,
                    LAMBDA t : /\ t.user_id = request.user_id
                               /\ t.type = "expense"
                               /\ t.tag = current_tag
                               /\ t.date >= now - 7)
    IN  AmountOf(rows)

\* max(income - expense of the current transaction, 7-day spend on its tag)
DerivedInvestableAmount ==
    LET surplus == transaction_data.income - transaction_data.expense
    IN  IF surplus >= SevenDaySpendOnCurrentTag THEN surplus
        ELSE SevenDaySpendOnCurrentTag

\* C11: analyze_and_coach returns at most 2 fund suggestions, and none when the
\* derived investable amount, max(income - expense of the current transaction,
\* 7-day spend on the current tag), is below 1000, whatever the collaborator
\* replied.
C11_ThresholdAndCap ==
    (CoachWasCalled /\ coaching.outcome = "returned")
    =>  /\ Len(coaching.value.fund_suggestions) <= 2
        /\ DerivedInvestableAmount < Rupees(1000)
               => coaching.value.fund_suggestions = <<>>

\* The collaborator asks for an intervention on a 600 spend on cigarettes; the
\* only other spend on cigarettes, 6000, is 8 days old: no fund is suggested.
C11_Witness ==
    /\ CoachWasCalled
    /\ transaction_data = [income |-> 0, expense |-> Rupees(600),
                           tags |-> <<"cigarettes">>, date |-> ChatToday]
    /\ Len(transactions_file) = 1
    /\ transactions_file[1].tag = "cigarettes"
    /\ transactions_file[1].amount = Rupees(6000)
    /\ transactions_file[1].date = now - 8
    /\ coaching.outcome = "returned"
    /\ coaching.value.should_intervene = "true"
    /\ coaching.value.fund_suggestions = <<>>
    /\ response.body.message # NoMessage

\* The reply analyze_and_coach went on with.
ReplyUsed ==
    IF collaborator.gemini # None THEN collaborator.gemini ELSE collaborator.ollama

\* C12: when the parsed reply is a JSON object whose should_intervene is missing
\* or is not a boolean (the string "false", null), the policy computes no fund
\* suggestions and the /chat/message response carries message = null.
C12_MalformedReplyIsNoIntervention ==
    (/\ CoachWasCalled
     /\ ReplyUsed \in ReplyObjects
     /\ ReplyUsed.should_intervene \notin {"true", "false"})
    =>  /\ coaching.outcome = "returned"
        /\ coaching.value.fund_suggestions = <<>>
        /\ response.status = 200
        /\ response.body.message = NoMessage

-----------------------------------------------------------------------------
(* Claims about the requests and the store, checked under Spec *)

\* The errors of /chat/message raised before anything is saved: neither text nor
\* audio, unknown user, failed transcription, blank text, failed extraction.
FailuresBeforePersistence ==
    {HTTPException(400, "Either 'text' or 'audio' must be provided"),
     HTTPException(404, "User not found"),
     HTTPException(500, "Failed to transcribe audio"),
     HTTPException(400, "No text content found in input"),
     HTTPException(500, "Failed to extract transaction")}

\* C13: a /chat/message request that ends in one of the errors raised before
\* persistence leaves the user and transaction files as they were, and a row is
\* added to the transaction file only by a request whose extraction returned data.
C13_FailureBeforePersistence ==
    [][/\ (/\ request'.endpoint = "/chat/message"
           /\ response' \in FailuresBeforePersistence)
          => UNCHANGED storeVars
       /\ transactions_file' # transactions_file
          => /\ request'.endpoint = "/chat/message"
             /\ transaction_data' \in ChatData]_vars

\* Extraction failed for a user who has two rows: they are still there.
C13_Witness ==
    /\ pc = "idle"
    /\ request # None
    /\ request.endpoint = "/chat/message"
    /\ request.user_id = 1
    /\ response = HTTPException(500, "Failed to extract transaction")
    /\ transaction_data = None
    /\ Len(transactions_file) = 2

\* The last request went to an endpoint that names a user, and it is answered.
UserRequestAnswered ==
    /\ pc = "idle"
    /\ request # None
    /\ request.endpoint \in {"/chat/message", "/coach/advise", "/coach/investment-plan"}

CoachEndpointAnswered ==
    /\ UserRequestAnswered
    /\ request.endpoint \in {"/coach/advise", "/coach/investment-plan"}

UnknownUser == get_user(users_file, request.user_id) = None

NoTransactions == get_transactions(transactions_file, request.user_id, now) = <<>>

\* Neither extraction, nor the auditor, the strategist, the catalyst or the
\* coach ran for the last request.
NoStageRan ==
    /\ transaction_data = None
    /\ report = None
    /\ plan = None
    /\ proposal = None
    /\ coaching = None

\* C14: /coach/advise, /coach/investment-plan and /chat/message answer 404 for a
\* user_id absent from the user store, and the two /coach endpoints answer 404
\* for an existing user with no transactions, before any pipeline stage runs.
C14_NotFound ==
    /\ (UserRequestAnswered /\ UnknownUser)
       => (response.status = 404 /\ NoStageRan)
    /\ (CoachEndpointAnswered /\ ~UnknownUser /\ NoTransactions)
       => (response.status = 404 /\ NoStageRan)

\* C14, amended: as C14, but /chat/message answers 404 for an unknown user only
\* when the request carries text or audio; with neither it answers 400, the
\* input being checked before the user.
C14_NotFoundGivenInput ==
    /\ (UserRequestAnswered /\ UnknownUser)
       => /\ NoStageRan
          /\ IF request.endpoint = "/chat/message" /\ ~request.has_input
             THEN response.status = 400
             ELSE response.status = 404
    /\ (CoachEndpointAnswered /\ ~UnknownUser /\ NoTransactions)
       => (response.status = 404 /\ NoStageRan)

\* /coach/investment-plan for a user who exists and has no transactions.
C14_Witness ==
    /\ CoachEndpointAnswered
    /\ request.endpoint = "/coach/investment-plan"
    /\ ~UnknownUser
    /\ NoTransactions
    /\ response = HTTPException(404, "No transactions found for this user")
    /\ NoStageRan

\* The n-th record of the file has id n.
IdsAreOrdinals(rows) == \A i \in 1..Len(rows) : rows[i].id = i

\* Every record of old is in new, at its place and unmodified.
IsPrefix(old, new) ==
    /\ Len(old) <= Len(new)
    /\ \A i \in 1..Len(old) : new[i] = old[i]

-----------------------------------------------------------------------------
(* The store under concurrent calls: each thread runs one create_user or
   create_transaction; _file_lock is taken inside _save_json only *)

NumThreads == 2
Threads == 1..NumThreads

StoreCalls == {"create_user", "create_transaction"}

\* A file opened with mode "w" and not yet written: it holds no JSON document.
Truncated == <<[truncated |-> TRUE]>>

\* _load_json: the parsed list, the default [] when the file does not parse.
load_json(file) == IF file = Truncated THEN <<>> ELSE file

\* The data a thread's call was given: every call brings its own.
ThreadProfiles == <<"low", "medium", "high">>
ThreadUser(t) == ThreadProfiles[t]
ThreadAmount(t) == Rupees(100 * t)

\* The list a thread hands to _save_json: the list it loaded plus its record.
ListToSave(t) ==
    IF calls[t] = "create_user"
    THEN create_user(loaded[t], ThreadUser(t))
    ELSE create_transaction(loaded[t], 1, ThreadAmount(t), "expense", "expense",
                            ChatToday)

\* The transactions file before the calls: empty, or one row of an earlier call.
StoredBefore == create_transaction(<<>>, 1, Rupees(50), "expense", "expense", ChatToday)

InitStore ==
    /\ pc = [t \in Threads |-> "called"]
    /\ now = ChatToday
    /\ transactions = <<>>
    /\ report = None
    /\ risk_profile = "medium"
    /\ plan = None
    /\ proposal = None
    /\ investable_amount = 0
    /\ funds = <<>>
    /\ users_file = <<>>
    /\ transactions_file \in {<<>>, StoredBefore}
    /\ request = None
    /\ transaction_data = None
    /\ collaborator = None
    /\ coaching = None
    /\ response = None
    /\ calls \in [Threads -> StoreCalls]
    /\ loaded = [t \in Threads |-> <<>>]
    /\ lock = 0

StoreRest ==
    UNCHANGED <<now, risk_profile, auditVars, planVars, fundVars, chatVars, calls>>

\* users = _load_json(USERS_FILE, []): no lock is taken to read.
Load(t) ==
    /\ pc[t] = "called"
    /\ loaded' = [loaded EXCEPT ![t] =
                     IF calls[t] = "create_user" THEN load_json(users_file)
                     ELSE load_json(transactions_file)]
    /\ pc' = [pc EXCEPT ![t] = "loaded"]
    /\ UNCHANGED <<storeVars, lock>>
    /\ StoreRest

\* with _file_lock: the new id and the appended list were computed before.
Acquire(t) ==
    /\ pc[t] = "loaded"
    /\ lock = 0
    /\ lock' = t
    /\ pc' = [pc EXCEPT ![t] = "locked"]
    /\ UNCHANGED <<storeVars, loaded>>
    /\ StoreRest

\* open(file_path, "w") truncates the file.
Open(t) ==
    /\ pc[t] = "locked"
    /\ IF calls[t] = "create_user"
       THEN users_file' = Truncated /\ UNCHANGED transactions_file
       ELSE transactions_file' = Truncated /\ UNCHANGED users_file
    /\ pc' = [pc EXCEPT ![t] = "open"]
    /\ UNCHANGED <<loaded, lock>>
    /\ StoreRest

\* json.dump writes the list, the file is closed and the lock released.
Dump(t) ==
    /\ pc[t] = "open"
    /\ IF calls[t] = "create_user"
       THEN users_file' = ListToSave(t) /\ UNCHANGED transactions_file
       ELSE transactions_file' = ListToSave(t) /\ UNCHANGED users_file
    /\ lock' = 0
    /\ pc' = [pc EXCEPT ![t] = "returned"]
    /\ UNCHANGED loaded
    /\ StoreRest

NextStore == \E t \in Threads : Load(t) \/ Acquire(t) \/ Open(t) \/ Dump(t)

SpecStore == InitStore /\ [][NextStore]_vars

-----------------------------------------------------------------------------
(* Claims about concurrent store calls, checked under SpecStore *)

AllReturned == \A t \in Threads : pc[t] = "returned"

\* The record of thread t's call is in the file its call writes.
RecordPresent(t) ==
    IF calls[t] = "create_user"
    THEN \E i \in 1..Len(users_file) : users_file[i].risk_profile = ThreadUser(t)
    ELSE \E i \in 1..Len(transactions_file) :
            transactions_file[i].amount = ThreadAmount(t)

DistinctIds(rows) ==
    \A i, j \in 1..Len(rows) : rows[i].id = rows[j].id => i = j

\* C16: once every concurrent create_user / create_transaction call has
\* returned, the record of each call is in the store and no two records of
\* a file share an id.
C16_LockSuffices ==
    AllReturned =>
        /\ \A t \in Threads : RecordPresent(t)
        /\ DistinctIds(users_file)
        /\ DistinctIds(transactions_file)

-----------------------------------------------------------------------------
(* The pipeline endpoints over stored rows, well-formed or not: one user,
   a transactions file drawn from rows whose date or amount may not parse *)

StoredRows ==
    [id : {0}, user_id : {1}, amount : {Rupees(1000), Rupees(6000), BadAmount},
     type : {"income", "expense"}, tag : {"expense"}, date : {ChatToday, BadDate}]

\* Rows numbered as create_transaction numbers them.
Numbered(rows) == [i \in 1..Len(rows) |-> [rows[i] EXCEPT !.id = i]]

StoredHistories ==
    UNION {{Numbered(h) : h \in [1..n -> StoredRows]} : n \in 1..MaxHistory}

InitAdvise ==
    /\ pc = "idle"
    /\ now = ChatToday
    /\ transactions = <<>>
    /\ report = None
    /\ risk_profile = "medium"
    /\ plan = None
    /\ proposal = None
    /\ investable_amount = 0
    /\ funds = <<>>
    /\ \E rp \in {"low", "medium", "high"} :
          users_file = <<[id |-> 1, risk_profile |-> rp]>>
    /\ transactions_file \in StoredHistories
    /\ request = None
    /\ transaction_data = None
    /\ collaborator = None
    /\ coaching = None
    /\ response = None
    /\ ThreadsIdle

NextAdvise == CoachAdvise \/ InvestmentPlan

SpecAdvise == InitAdvise /\ [][NextAdvise]_vars

-----------------------------------------------------------------------------
(* Claims about malformed stored rows, checked under SpecAdvise *)

\* The stored rows of a user with every unparsable date replaced by today and
\* every unparsable amount replaced by zero, newest first.
SafeDefaults(rows, user_id, today) ==
    LET dated == get_transactions(rows, user_id, today)
    IN  [i \in 1..Len(dated) |->
            IF dated[i].amount = BadAmount THEN [dated[i] EXCEPT !.amount = 0]
            ELSE dated[i]]

\* C17: for a user who has stored transactions, /coach/advise and
\* /coach/investment-plan return a report, computed with an unparsable stored
\* date taken as today and an unparsable stored amount taken as zero.
C17_MalformedRowsCoerced ==
    (/\ request # None
     /\ get_user(users_file, request.user_id) # None
     /\ get_transactions(transactions_file, request.user_id, now) # <<>>)
    => /\ response.status = 200
       /\ report = audit_finances(SafeDefaults(transactions_file, request.user_id, now),
                                  now)

-----------------------------------------------------------------------------
(* Claims about the pipeline's outputs, checked under SpecAdvise *)

\* A pipeline endpoint answered with the outputs of the three stages.
PipelineAnswered ==
    /\ response # None
    /\ response.status = 200
    /\ report # None
    /\ plan # None
    /\ proposal # None

IsPercentage(x) == 0 <= x /\ x <= 100

AllocationAndPortfolioInRange ==
    /\ IsPercentage(plan.allocation.liquid)
    /\ IsPercentage(plan.allocation.locked)
    /\ IsPercentage(proposal.portfolio.equity)
    /\ IsPercentage(proposal.portfolio.debt)
    /\ IsPercentage(proposal.portfolio.gold)
    /\ IsPercentage(proposal.portfolio.cash)

\* C18 as stated: every percentage the pipeline produces lies in [0, 100]:
\* burn_rate of the report, liquid and locked of the allocation, and equity,
\* debt, gold and cash of the portfolio.
C18_PercentagesInRange ==
    PipelineAnswered =>
        /\ 0 <= report.burn_rate /\ report.burn_rate <= 100 * 100
        /\ AllocationAndPortfolioInRange

\* C18 as amended: the allocation and portfolio percentages lie in [0, 100];
\* burn_rate is never negative, is at most 100 when the month's expenses do
\* not exceed its income or there is no income, and is at least 100, with no
\* upper limit, when the expenses exceed a positive income.
C18_PercentagesInRangeUnlessOverspent ==
    PipelineAnswered =>
        LET I == MonthlyIncome(transactions, now)
            E == MonthlyExpenses(transactions, now)
        IN  /\ report.burn_rate >= 0
            /\ (E <= I \/ I = 0) => report.burn_rate <= 100 * 100
            /\ (E > I /\ I > 0) => report.burn_rate >= 100 * 100
            /\ AllocationAndPortfolioInRange

\* Income 1000 and expenses 6000 in the month: a burn rate of 600%.
C18_Witness ==
    /\ PipelineAnswered
    /\ report.monthly_income = Rupees(1000)
    /\ report.monthly_expenses = Rupees(6000)
    /\ report.burn_rate = 600 * 100
    /\ AllocationAndPortfolioInRange

-----------------------------------------------------------------------------
(* Claims about the stored amounts and the totals of a report, checked under
   Spec *)

\* The report the auditor gives for a user's stored transactions.
UserReport(user_id) ==
    audit_finances(get_transactions(transactions_file, user_id, now), now)

NonNegativeTotals(rep) == rep.monthly_income >= 0 /\ rep.monthly_expenses >= 0

\* C19: after any sequence of /chat/message requests every stored amount is
\* positive, the message handler saving an income or expense row only for an
\* extracted amount > 0, and so the auditor's monthly_income and
\* monthly_expenses are >= 0 for every user, as they are in every report a
\* pipeline endpoint returned.
C19_TotalsNonNegative ==
    /\ \A i \in 1..Len(transactions_file) : transactions_file[i].amount > 0
    /\ \A user_id \in UserIds : NonNegativeTotals(UserReport(user_id))
    /\ report # None => NonNegativeTotals(report)

\* A message with a negative income was handled after one with an expense: the
\* expense row is the only row, and the user's totals are 0 and 1000.
C19_Witness ==
    /\ pc = "coach"
    /\ transaction_data # None
    /\ transaction_data.income < 0
    /\ Len(transactions_file) = 1
    /\ UserReport(1).monthly_income = 0
    /\ UserReport(1).monthly_expenses = Rupees(1000)

-----------------------------------------------------------------------------
(* Claims about saving_potential, checked under SpecAudit *)

Abs(x) == IF x >= 0 THEN x ELSE 0 - x

WholeHundredths(txs) == \A i \in 1..Len(txs) : txs[i].amount % Cent = 0

\* C20 as stated: saving_potential is exactly the returned monthly_income
\* minus the returned monthly_expenses.
C20_SavingPotentialExact ==
    pc = "audited" =>
        report.saving_potential = report.monthly_income - report.monthly_expenses

\* C20 as amended: with I and E the income and expense sums the auditor
\* computes before rounding, saving_potential is I - E rounded to two
\* decimals; it is within one hundredth of the returned monthly_income minus
\* the returned monthly_expenses, and equal to it when every amount is a whole
\* number of hundredths; it is negative when E exceeds I by more than half a
\* hundredth, and is never clamped to 0.
C20_SavingPotentialRounded ==
    pc = "audited" =>
        LET I == CountedIncome
            E == CountedExpenses
            sp == report.saving_potential
            returned == report.monthly_income - report.monthly_expenses
        IN  /\ sp % Cent = 0
            /\ 2 * Abs(sp - (I - E)) <= Cent
            /\ Abs(sp - returned) <= Cent
            /\ WholeHundredths(transactions) => sp = returned
            /\ 2 * (E - I) > Cent => sp < 0

\* Income 3.006 and expenses 17.004: saving_potential is -14.00 while the
\* returned totals are 3.01 and 17.00.
C20_Witness ==
    /\ pc = "audited"
    /\ CountedIncome = Rupees(3) + 6
    /\ CountedExpenses = Rupees(17) + 4
    /\ report.saving_potential = 0 - Rupees(14)
    /\ report.monthly_income - report.monthly_expenses = Cent - Rupees(14)

-----------------------------------------------------------------------------
(* The pipeline endpoints over stored rows while the date changes:
   date.today() is read afresh by every call *)

\* Today, tomorrow, and the same day of the next month.
ClockDays == {ChatToday, ChatToday + 1, ChatToday + DaysInMonth}

\* The date moves on between two requests.
Tick ==
    /\ pc = "idle"
    /\ \E d \in ClockDays : d > now /\ now' = d
    /\ UNCHANGED <<pc, risk_profile, auditVars, planVars, fundVars, storeVars,
                   chatVars, threadVars>>

NextClock ==
    \/ CoachAdvise
    \/ InvestmentPlan
    \/ Tick

SpecClock == InitAdvise /\ [][NextClock]_vars

-----------------------------------------------------------------------------
(* Claims about the derived structures, checked under SpecClock *)

CoachEndpoints == {"/coach/advise", "/coach/investment-plan"}

\* The step leaves the answer of a pipeline endpoint.
AnsweredByPipelineEndpoint ==
    /\ request' # None
    /\ request'.endpoint \in CoachEndpoints

\* The step leaves a pipeline endpoint's answer in place of an earlier answer
\* of the same endpoint to the same user, nothing having been served between
\* them.
RepeatedRequest ==
    /\ request # None
    /\ request.endpoint \in CoachEndpoints
    /\ request' # None
    /\ request'.endpoint = request.endpoint
    /\ request'.user_id = request.user_id

SameDerivedStructures == <<report, plan, proposal>>' = <<report, plan, proposal>>

\* C21 as stated: /coach/advise and /coach/investment-plan never modify the
\* user store or the transaction log, and a request repeated with no write in
\* between returns the same report, plan and proposal.
C21_PureAndRepeatable ==
    [][/\ AnsweredByPipelineEndpoint => UNCHANGED storeVars
       /\ RepeatedRequest => SameDerivedStructures]_vars

\* C21 as amended: the two endpoints never modify the store, and a request
\* repeated with no write in between and in the same calendar month returns
\* the same report, plan and proposal.
C21_PureAndRepeatableInMonth ==
    [][/\ AnsweredByPipelineEndpoint => UNCHANGED storeVars
       /\ (RepeatedRequest /\ MonthOf(request'.received) = MonthOf(request.received))
              => SameDerivedStructures]_vars

\* /coach/advise answered user 1 on a later day of the month in which the
\* user's income was recorded, and reported that income.
C21_Witness ==
    /\ request # None
    /\ request.endpoint = "/coach/advise"
    /\ request.received = ChatToday + 1
    /\ response.status = 200
    /\ report.monthly_income = Rupees(6000)

-----------------------------------------------------------------------------
(* Claims about the order of the providers, checked under Spec *)

\* C22: in the extraction and in the coaching alike Gemini is tried first, and
\* Ollama is contacted exactly when the Gemini attempt gave no result: never
\* when Gemini gave a parsed result.
C22_FallbackOrder ==
    collaborator # None =>
        /\ collaborator.gemini # NotCalled
        /\ (collaborator.ollama # NotCalled) <=> (collaborator.gemini = None)

\* The extraction was answered and the message went on to the coach, where
\* Gemini gave nothing and Ollama replied with an object.
C22_Witness ==
    /\ CoachWasCalled
    /\ transaction_data # None
    /\ collaborator.gemini = None
    /\ collaborator.ollama \in ReplyObjects
    /\ coaching.outcome = "returned"

-----------------------------------------------------------------------------
(* Claims about the strategist composed with the catalyst, checked under
   SpecPlan *)

\* C23: in the plan and proposal built from a report, investable_amount is
\* positive exactly when monthly_savings_target exceeds emergency_fund_goal,
\* that is when saving_potential > 3 x monthly_expenses; when 0 < target <=
\* goal the monthly contribution goal / months is at least the target and
\* investable_amount is 0.
C23_InvestableOnlyBeyondGoal ==
    pc = "proposed" =>
        LET goal == plan.emergency_fund_goal
            target == plan.monthly_savings_target
            months == plan.months_to_reach_goal
            inv == proposal.investable_amount
        IN  /\ (inv > 0) <=> (target > goal)
            /\ (inv > 0) <=> (report.saving_potential > 3 * report.monthly_expenses)
            /\ (0 < target /\ target <= goal) =>
                   /\ months > 0
                   /\ goal >= months * target
                   /\ inv = 0

\* Target 3500 against a goal of 4500: one month, a contribution of 4500,
\* nothing investable.
C23_Witness ==
    /\ pc = "proposed"
    /\ plan.monthly_savings_target = Rupees(3500)
    /\ plan.emergency_fund_goal = Rupees(4500)
    /\ plan.months_to_reach_goal = 1
    /\ proposal.investable_amount = 0

\* C24: when the summary says that saving monthly_savings_target per month
\* completes the emergency fund in months_to_reach_goal months, that many
\* months of that saving reach the goal: months x target >= emergency_fund_goal.
C24_SummaryMonthsReachGoal ==
    pc \in {"planned", "proposed"} =>
        LET sentence == SavingsSentence(plan)
        IN  sentence # None =>
                sentence.months_to_goal * sentence.monthly_savings
                    >= plan.emergency_fund_goal

-----------------------------------------------------------------------------
(* Claims about the rows of the transaction log, checked under Spec *)

\* C25: after any sequence of create-user and /chat/message requests every
\* transaction of the log has the user_id of a user of the user store, a type
\* that is income or expense, and an amount > 0.
C25_RowsWellFormed ==
    \A i \in 1..Len(transactions_file) :
        LET t == transactions_file[i]
        IN  /\ get_user(users_file, t.user_id) # None
            /\ t.type \in {"income", "expense"}
            /\ t.amount > 0

\* A message for a user that does not exist was refused after a message of
\* user 1 had its income and its expense saved.
C25_Witness ==
    /\ request # None
    /\ request.endpoint = "/chat/message"
    /\ get_user(users_file, request.user_id) = None
    /\ response = HTTPException(404, "User not found")
    /\ Len(transactions_file) = 2
    /\ transactions_file[1].type = "income"
    /\ transactions_file[2].type = "expense"
    /\ transactions_file[1].user_id = 1

\* The step takes a message to the coach: its input was accepted, its
\* transaction extracted and saved.
MessageReachesCoach == pc = "idle" /\ pc' = "coach"

\* C26: a /chat/message request that succeeds appends one row for an income > 0
\* and one for an expense > 0, and no other: the income row first and with the
\* smaller id, both with the same date; with income and expense both 0 nothing
\* is appended and the coach is consulted all the same.  Every message that
\* reaches the coach succeeds.
C26_RowsAppended ==
    /\ [][MessageReachesCoach =>
             LET old == Len(transactions_file)
                 rows == transactions_file'
                 i == IF transaction_data'.income > 0 THEN 1 ELSE 0
                 e == IF transaction_data'.expense > 0 THEN 1 ELSE 0
             IN  /\ Len(rows) = old + i + e
                 /\ SubSeq(rows, 1, old) = transactions_file
                 /\ i = 1 => /\ rows[old + 1].type = "income"
                             /\ rows[old + 1].amount = transaction_data'.income
                 /\ e = 1 => /\ rows[old + i + 1].type = "expense"
                             /\ rows[old + i + 1].amount = transaction_data'.expense
                 /\ (i = 1 /\ e = 1) =>
                        /\ rows[old + 1].id < rows[old + 2].id
                        /\ rows[old + 1].date = rows[old + 2].date]_vars
    /\ [][pc = "coach" => /\ coaching' # None
                          /\ response'.status = 200
                          /\ UNCHANGED storeVars]_vars

\* A message with neither income nor expense was answered: the coach was
\* consulted and the log of user 1, two rows of an earlier message, is as before.
C26_Witness ==
    /\ CoachWasCalled
    /\ transaction_data.income = 0
    /\ transaction_data.expense = 0
    /\ response.status = 200
    /\ Len(transactions_file) = 2
    /\ transactions_file[1].type = "income"
    /\ transactions_file[1].id < transactions_file[2].id
    /\ transactions_file[1].date = transactions_file[2].date

-----------------------------------------------------------------------------
(* Claims about the history the coach is given, checked under Spec *)

\* The history handed to analyze_and_coach for the message being served, and
\* the 7-day spend on the current tag that the policy computes from it.
HistoryForCoach == get_transactions(transactions_file, request.user_id, now)

PolicySpend(time_of_day) ==
    RecentTagSpending(Take(HistoryForCoach, 20), TagString(transaction_data.tags),
                      now, time_of_day)

\* The rows of the history that are expenses on the current tag.
SameTagExpenses ==
    SelectSeq(HistoryForCoach,
              LAMBDA t : t.type = "expense" /\ t.tag = TagString(transaction_data.tags))

\* A message with an expense dated today is at the coach, or was answered.
ExpenseOfTodayAtCoach ==
    /\ request # None
    /\ request.endpoint = "/chat/message"
    /\ transaction_data # None
    /\ pc = "coach" \/ coaching # None
    /\ transaction_data.expense > 0
    /\ transaction_data.date = now

\* C27: the current transaction is saved before the coach is called, so for
\* a user with fewer than 20 transactions and a current expense > 0 dated
\* today the 7-day spend on the current tag that the policy computes is at
\* least the current expense, which is counted in it once: it is the whole
\* spend when no other expense carries the tag.
C27_CurrentExpenseInHistory ==
    (ExpenseOfTodayAtCoach /\ Len(HistoryForCoach) < 20) =>
        \A time_of_day \in {0, 1} :
            /\ PolicySpend(time_of_day) >= transaction_data.expense
            /\ Len(SameTagExpenses) = 1 =>
                   PolicySpend(time_of_day) = transaction_data.expense

\* The second expense of 1000 on cigarettes was answered: the policy's 7-day
\* spend is 2000.
C27_Witness ==
    /\ CoachWasCalled
    /\ transaction_data.expense = Rupees(1000)
    /\ Len(SameTagExpenses) = 2
    /\ PolicySpend(1) = Rupees(2000)

-----------------------------------------------------------------------------
(* Claims about the funds shown to the caller, checked under Spec *)

\* /coach/investment-plan answered with its fund suggestions.
PlanAnswered ==
    /\ request # None
    /\ request.endpoint = "/coach/investment-plan"
    /\ response.status = 200

ShownByPlan == response.body.investment_plan.fund_suggestions

\* The coach returned its response for a message.
CoachReturned == CoachWasCalled /\ coaching.outcome = "returned"

ShownByCoach == coaching.value.fund_suggestions

\* C28: the fund added for diversification never reaches the caller: the
\* (at most 5) funds of a /coach/investment-plan response include no equity
\* fund for a low-risk user and no debt fund for a high-risk user, and the
\* (at most 2) funds suggested with an intervention to a medium-risk user are
\* high-risk equity funds.
C28_DiversificationNotShown ==
    /\ PlanAnswered =>
           /\ Len(ShownByPlan) <= 5
           /\ response.body.user.risk_profile = "low" =>
                  \A i \in 1..Len(ShownByPlan) : ShownByPlan[i].type # "equity"
           /\ response.body.user.risk_profile = "high" =>
                  \A i \in 1..Len(ShownByPlan) : ShownByPlan[i].type # "debt"
    /\ (CoachReturned
        /\ get_user(users_file, request.user_id).risk_profile = "medium") =>
           /\ Len(ShownByCoach) <= 2
           /\ \A i \in 1..Len(ShownByCoach) :
                  /\ ShownByCoach[i].type = "equity"
                  /\ ShownByCoach[i].risk_level = "high"
           /\ "fund_suggestions" \in DOMAIN response.body =>
                  response.body.fund_suggestions = ShownByCoach

\* A low-risk user with 6000 to invest is shown five funds, debt and hybrid.
C28_Witness ==
    /\ PlanAnswered
    /\ response.body.user.risk_profile = "low"
    /\ response.body.investment_plan.investable_amount = Rupees(6000)
    /\ Len(ShownByPlan) = 5
    /\ \A i \in 1..5 : ShownByPlan[i].type \in {"debt", "hybrid"}

-----------------------------------------------------------------------------
(* Claims about the funds of the shipped catalog that can be selected, checked
   under SpecFunds *)

ReturnedTypes == {funds[i].type : i \in 1..Len(funds)}

\* C29: with the shipped catalog get_funds_by_risk_profile returns no gold
\* fund, whatever the risk profile and the investable amount, and returns a
\* hybrid fund only for risk_profile = low.
C29_NoGoldHybridOnlyForLow ==
    pc = "selected" =>
        /\ "gold" \notin ReturnedTypes
        /\ "hybrid" \in ReturnedTypes => risk_profile = "low"

\* The medium selection at an amount that every fund accepts: five equity
\* funds and a debt fund, the hybrid and gold funds of the catalog left out.
C29_Witness ==
    /\ pc = "selected"
    /\ risk_profile = "medium"
    /\ investable_amount = Rupees(5000)
    /\ Len(funds) = 6
    /\ ReturnedTypes = {"equity", "debt"}

-----------------------------------------------------------------------------
(* Claims about the catalog minimum and the two thresholds, checked under Spec *)

\* The investable amounts the policy can have derived for the answered message,
\* one for each time of day the request may have been served at.
DerivedInvestable ==
    {CoachInvestableAmount(transaction_data, Take(HistoryForCoach, 20), now, time_of_day) :
        time_of_day \in {0, 1}}

\* What /coach/investment-plan does with the catalog minimum: funds for an
\* investable amount of 0, none for an amount between 0 and 5000.
PlanFundsAtCatalogMinimum ==
    PlanAnswered =>
        /\ investable_amount = 0 => ShownByPlan # <<>>
        /\ (investable_amount > 0 /\ investable_amount < Rupees(5000)) =>
               ShownByPlan = <<>>

\* C30: with the shipped catalog analyze_and_coach returns a non-empty
\* fund_suggestions list only when should_intervene is true and the derived
\* investable amount is at least 5000 (an amount from 1000 to 4999 passes the
\* threshold and yet gives an empty list), and /coach/investment-plan returns
\* funds for investable_amount = 0 but none for 0 < investable_amount < 5000.
C30_FundsOnlyFromCatalogMinimum ==
    /\ (CoachReturned /\ ShownByCoach # <<>>) =>
           /\ coaching.value.should_intervene = "true"
           /\ \E amount \in DerivedInvestable : amount >= Rupees(5000)
    /\ (CoachReturned /\ \A amount \in DerivedInvestable : amount < Rupees(5000)) =>
           ShownByCoach = <<>>
    /\ PlanFundsAtCatalogMinimum

\* The same with should_intervene read as the code reads it, by truthiness.
C30_FundsOnlyFromCatalogMinimumIfTruthy ==
    /\ (CoachReturned /\ ShownByCoach # <<>>) =>
           /\ TruthyJson(coaching.value.should_intervene)
           /\ \E amount \in DerivedInvestable : amount >= Rupees(5000)
    /\ (CoachReturned /\ \A amount \in DerivedInvestable : amount < Rupees(5000)) =>
           ShownByCoach = <<>>
    /\ PlanFundsAtCatalogMinimum

====
